---- MODULE Spec2Model ----
(***************************************************************************)
(* Model of memoize.wrapper (src/memoize/wrapper.py): the memoized         *)
(* wrapper, the refresh coordinator and the eviction release, running on   *)
(* a single-threaded cooperative scheduler.  One action is one run of a    *)
(* coroutine from a resumption to its next await (or to its return).       *)
(*                                                                         *)
(* Collaborators that live outside src/ (UpdateStatuses, storage, entry    *)
(* builder, eviction strategy, post-processing) are modelled from their    *)
(* contract in the specification.  storage.get reads and storage.release *)
(* removes at the instant the awaiting coroutine is resumed; the write of  *)
(* storage.offer is a step of its own, taken by the storage while refresh  *)
(* is suspended in the offer: an offer returns only after it replaced the  *)
(* row, and may raise before or after.  Every tracker and storage          *)
(* operation of a call is keyed by that call's own key, so calls on        *)
(* different keys do not interact: the calls of the model address one key, *)
(* and a second key exists as a victim the eviction may nominate.          *)
(***************************************************************************)
EXTENDS Integers, FiniteSets, Sequences, TLC

\* ---------------------------------------------------------------- bounds
NCalls == 3
MaxTime == 2
\* the callers of the runs that follow the eviction releases
EvictCallers == 2

\* --------------------------------------------------------- configuration
MethodTimeout == 1
LockSlack == 1
UpdateLockTimeout == MethodTimeout + LockSlack
UpdateAfter == 1
SoftWindow == 1
ExpireAfter == UpdateAfter + SoftWindow
PostShift == 100

Calls == 1..NCalls
Keys == {"k1", "k2"}
CallKeys == {"k1"}
NoKey == "none"
Times == 0..MaxTime

\* ---------------------------------------------------------------- entries
NoEntry == [value |-> -1, created |-> -1, update_after |-> -1, expires_after |-> -1]

\* entry_builder().build(key, value) at clock reading t
Build(v, t) ==
  [value |-> v, created |-> t, update_after |-> t + UpdateAfter,
   expires_after |-> t + ExpireAfter]

\* the entry a warm cache holds when the program starts
InitialEntry == Build(0, 0)

\* postprocessing().apply(value)
Apply(v) == v + PostShift

\* the value the user method returns to the refresh of call c
UserValue(c) == c

VARIABLES
  now,          \* the UTC clock
  storage,      \* key -> entry | NoEntry
  registry,     \* UpdateStatuses._updates_in_progress: key -> latch id | 0
  latch,        \* latch id -> the future created by mark_being_updated
  work,         \* call id -> state of the value_future of that call's refresh
  call,         \* call id -> the wrapper coroutine of that call
  ref,          \* call id -> the refresh coroutine that call started
  rel,          \* call id -> the try_release task scheduled by that call's refresh
  doubleMark,   \* mark_being_updated was called on a registered key
  serde         \* a SerDe of the storage layer at work on one entry

vars == <<now, storage, registry, latch, work, call, ref, rel, doubleMark, serde>>

IdleCall ==
  [pc |-> "idle", conf |-> TRUE, key |-> NoKey, force |-> FALSE, start |-> -1,
   now |-> -1, branch |-> "none", kind |-> "none",
   res |-> NoEntry, value |-> -1]
NoRef ==
  [pc |-> "none", actual |-> NoEntry, offered |-> NoEntry, waitOn |-> 0, joined |-> 0,
   out |-> "none", evict |-> "none", started |-> -1, written |-> FALSE]
NoLatch == [status |-> "none", result |-> NoEntry, created |-> -1]
NoRel == [pc |-> "none", key |-> NoKey, out |-> "none", marked |-> FALSE]
NoSerDe == [pc |-> "none"]

Init ==
  /\ now = 0
  /\ storage \in {s \in [Keys -> {NoEntry, InitialEntry}] : \A k \in Keys \ CallKeys : s[k] = InitialEntry}
  /\ registry = [k \in Keys |-> 0]
  /\ latch = [c \in Calls |-> NoLatch]
  /\ work = [c \in Calls |-> "none"]
  /\ call = [c \in Calls |-> IdleCall]
  /\ ref = [c \in Calls |-> NoRef]
  /\ rel = [c \in Calls |-> NoRel]
  /\ doubleMark = FALSE
  /\ serde = NoSerDe

\* ------------------------------------------------- update status tracker
IsBeingUpdated(reg, key) == reg[key] # 0

\* registry after mark_being_updated(key) creating latch l
MarkBeingUpdated(reg, key, l) == [reg EXCEPT ![key] = l]

\* registry after mark_updated / mark_update_aborted: the row is removed
RowRemoved(reg, key) == [reg EXCEPT ![key] = 0]

\* latches after the registered latch of key is resolved
Resolved(reg, lt, key, status, entry) ==
  IF reg[key] = 0 THEN lt
  ELSE [lt EXCEPT ![reg[key]] = [status |-> status, result |-> entry, created |-> -1]]

\* faulty variant: refresh has no finally block
FinallyLatchMissing(reg, lt, key, l) == lt

\* finally-block of refresh: abort whatever is registered, then complete
\* the refresh's own notification future if it is still undone
FinallyLatch(reg, lt, key, l) ==
  LET lt1 == Resolved(reg, lt, key, "failed", NoEntry)
  IN IF lt1[l].status = "pending"
     THEN [lt1 EXCEPT ![l] = [status |-> "failed", result |-> NoEntry, created |-> -1]]
     ELSE lt1

\* ------------------------------------------------------------ wrapper
\* faulty variant: the configured() check is missing
NotConfiguredNever(conf) == FALSE

\* `if not configuration.configured(): raise NotConfiguredCacheCalledException()`
NotConfigured(conf) == ~conf

\* dispatch of wrapper on the observed entry
Branch(cur, force, t) ==
  IF cur = NoEntry THEN "miss"
  ELSE IF force THEN "force"
  ELSE IF cur.expires_after <= t THEN "expired"
  ELSE IF cur.update_after <= t THEN "soft"
  ELSE "fresh"

\* the entry handed to refresh as actual_entry
ActualEntry(cur, branch) == IF branch = "force" THEN cur ELSE NoEntry

\* the refresh of call c is awaited by the wrapper (not a detached task)
Foreground(c) == call[c].branch # "soft"

\* `return configuration_snapshot.postprocessing().apply(result.value)`
Returned(entry) == Apply(entry.value)

\* a call took one of the blocking-refresh branches
Blocking(branch) == branch \in {"miss", "force", "expired"}

\* the wrapper coroutine returns or raises: its frame is gone, what is
\* left is the outcome, the branch it took and the entry it returned
Done(rec, kind, entry) ==
  [IdleCall EXCEPT !.pc = "done", !.conf = rec.conf, !.key = rec.key,
                   !.branch = rec.branch, !.kind = kind, !.res = entry,
                   !.value = IF kind = "value" THEN Returned(entry) ELSE -1]

\* wrapper, up to `await storage().get(key)`
WrapperCall(c, conf, key, force) ==
  /\ call[c].pc = "idle"
  /\ IF c = 1 THEN TRUE ELSE call[c - 1].pc # "idle"
  /\ IF NotConfigured(conf)
     THEN call' = [call EXCEPT ![c] =
                     Done([@ EXCEPT !.conf = conf], "NotConfigured", NoEntry)]
     ELSE call' = [call EXCEPT ![c] =
                     [@ EXCEPT !.pc = "get", !.conf = conf, !.key = key,
                               !.force = force, !.start = now]]
  /\ UNCHANGED <<serde, now, storage, registry, latch, work, ref, rel, doubleMark>>

\* faulty variant: refresh never looks for a refresh in flight
RendezvousSkipped(reg, key) == FALSE

\* `if update_status_tracker.is_being_updated(key)` at the head of refresh
Rendezvous(reg, key) == IsBeingUpdated(reg, key)

\* what a waiter makes of the resolved latch: an exception object becomes
\* CachedMethodFailedException, anything else is returned as the entry
LatchOutcome(status) == IF status = "entry" THEN "value" ELSE "CMFE"

\* the path refresh takes when `await value_future` is over
RefreshOutcome(workStatus) ==
  IF workStatus = "ok" THEN "offer"
  ELSE IF workStatus = "cancelled" THEN "cancelled"
  ELSE "abort"

\* refresh, from its first line to its first await or its return;
\* rec is the record of the calling wrapper, fg tells whether it awaits
\* faulty variant: every caller that meets a refresh in flight waits for it
WaitsForConcurrentAlways(actual) == TRUE

\* `if actual_entry is None` inside the rendezvous: only a caller without
\* a current entry waits for the refresh in flight
WaitsForConcurrent(actual) == actual = NoEntry

\* faulty variant: mark_being_updated called before value_future_provider
FailedStartMarked(reg, key, c) == MarkBeingUpdated(reg, key, c)

\* the registry after value_future_provider raised: the raise at line 98
\* leaves refresh before mark_being_updated (line 101) is reached
FailedStart(reg, key, c) == reg

RefreshEnter(c, key, actual, rec, fg) ==
  IF Rendezvous(registry, key)
  THEN /\ IF WaitsForConcurrent(actual)
          THEN /\ ref' = [ref EXCEPT ![c] =
                            [@ EXCEPT !.pc = "await_updated", !.actual = NoEntry,
                                      !.waitOn = registry[key],
                                      !.joined = registry[key]]]
               /\ call' = [call EXCEPT ![c] = rec]
          ELSE /\ ref' = [ref EXCEPT ![c] =
                            [@ EXCEPT !.pc = "done", !.actual = NoEntry, !.out = "entry"]]
               /\ call' = [call EXCEPT ![c] =
                             IF fg THEN Done(rec, "value", actual) ELSE rec]
       /\ UNCHANGED <<work, latch, registry, doubleMark>>
  ELSE \E startOk \in BOOLEAN :
         IF ~startOk
         THEN /\ ref' = [ref EXCEPT ![c] =
                           [@ EXCEPT !.pc = "done", !.actual = NoEntry, !.out = "CMFE"]]
              /\ call' = [call EXCEPT ![c] =
                            IF fg THEN Done(rec, "CMFE", NoEntry) ELSE rec]
              /\ registry' = FailedStart(registry, key, c)
              /\ UNCHANGED <<work, latch, doubleMark>>
         ELSE /\ work' = [work EXCEPT ![c] = "running"]
              /\ doubleMark' = (doubleMark \/ registry[key] # 0)
              /\ registry' = MarkBeingUpdated(registry, key, c)
              /\ latch' = [latch EXCEPT ![c] =
                             [status |-> "pending", result |-> NoEntry, created |-> now]]
              /\ ref' = [ref EXCEPT ![c] =
                           [@ EXCEPT !.pc = "await_value", !.actual = NoEntry, !.joined = c,
                                     !.started = now]]
              /\ call' = [call EXCEPT ![c] = rec]

\* wrapper resumed from storage().get(key): an exception of the storage
\* or of eviction_strategy().mark_read(key) (called when an entry was
\* found) leaves the wrapper; otherwise classification and dispatch
WrapperResume(c, getOk, readOk) ==
  /\ call[c].pc = "get"
  /\ LET key == call[c].key
         cur == storage[key]
         br == Branch(cur, call[c].force, now)
         rec == [call[c] EXCEPT !.now = now, !.branch = br, !.pc = "refresh",
                                !.force = FALSE]
     IN IF ~getOk
        THEN /\ call' = [call EXCEPT ![c] = Done(@, "StorageError", NoEntry)]
             /\ UNCHANGED <<ref, work, latch, registry, doubleMark>>
        ELSE IF cur # NoEntry /\ ~readOk
        THEN /\ call' = [call EXCEPT ![c] = Done(@, "EvictionError", NoEntry)]
             /\ UNCHANGED <<ref, work, latch, registry, doubleMark>>
        ELSE IF br = "fresh"
        THEN /\ call' = [call EXCEPT ![c] = Done(rec, "value", cur)]
             /\ UNCHANGED <<ref, work, latch, registry, doubleMark>>
        ELSE IF br = "soft"
        THEN /\ call' = [call EXCEPT ![c] = Done(rec, "value", cur)]
             /\ ref' = [ref EXCEPT ![c] = [@ EXCEPT !.pc = "bgstart", !.actual = cur]]
             /\ UNCHANGED <<work, latch, registry, doubleMark>>
        ELSE RefreshEnter(c, key, ActualEntry(cur, br), rec, TRUE)
  /\ UNCHANGED <<serde, now, storage, rel>>

\* the detached refresh scheduled by the soft-stale branch starts running
BackgroundStart(c) ==
  /\ ref[c].pc = "bgstart"
  /\ RefreshEnter(c, call[c].key, ref[c].actual, call[c], FALSE)
  /\ UNCHANGED <<serde, now, storage, rel>>

\* ------------------------------------------------------------ user work
\* how value_future may complete: the method returns, raises an
\* Exception, ends with CancelledError, or wait_for times out
WorkOutcomes == {"ok", "raised", "cancelled", "timeout"}

\* value_future completes. wait_for raises TimeoutError only once its
\* timer is due, method_timeout after value_future_provider was called;
\* the method's own outcome is delivered whenever the method ends, also
\* after the deadline (wait_for cancels the method and then awaits it, and
\* a method that survives the cancellation still returns or raises). A
\* method that never ends leaves value_future pending for ever.  Once
\* value_future was asked to cancel, wait_for cancels the method, waits
\* until it has ended, however it ends, and raises CancelledError.
WorkDone(c, outcome) ==
  /\ \/ /\ work[c] = "running"
        /\ outcome = "timeout" => now >= ref[c].started + MethodTimeout
     \/ /\ work[c] = "cancelling"
        /\ outcome = "cancelled"
  /\ work' = [work EXCEPT ![c] = outcome]
  /\ UNCHANGED <<serde, now, storage, registry, latch, call, ref, rel, doubleMark>>

\* ------------------------------------------------------------ refresh
\* a refresh leaves with CachedMethodFailedException after aborting
RefreshFails(c, key) ==
  /\ latch' = FinallyLatch(RowRemoved(registry, key),
                           Resolved(registry, latch, key, "failed", NoEntry), key, c)
  /\ registry' = RowRemoved(registry, key)
  /\ ref' = [ref EXCEPT ![c] = [@ EXCEPT !.pc = "done", !.out = "CMFE", !.offered = NoEntry,
                                         !.started = -1, !.written = FALSE]]
  /\ call' = [call EXCEPT ![c] =
                IF Foreground(c) THEN Done(@, "CMFE", NoEntry) ELSE @]

\* CancelledError leaves refresh from an await inside the try: it passes
\* the `except Exception` clauses and the finally block (130-136) aborts
\* what is registered for the key and completes the refresh's own latch
RefreshCancelled(c, key) ==
  /\ latch' = FinallyLatch(registry, latch, key, c)
  /\ registry' = RowRemoved(registry, key)
  /\ ref' = [ref EXCEPT ![c] = [@ EXCEPT !.pc = "done", !.out = "Cancelled",
                                         !.waitOn = 0, !.offered = NoEntry,
                                         !.started = -1, !.written = FALSE]]
  /\ call' = [call EXCEPT ![c] =
                IF Foreground(c) THEN Done(@, "Cancelled", NoEntry) ELSE @]

\* refresh resumed from `await value_future`
RefreshValueResume(c) ==
  /\ ref[c].pc = "await_value"
  /\ work[c] \in WorkOutcomes
  /\ IF RefreshOutcome(work[c]) = "offer"
     THEN /\ ref' = [ref EXCEPT ![c] =
                       [@ EXCEPT !.pc = "await_offer", !.started = -1,
                                 !.offered = Build(UserValue(c), now)]]
          /\ UNCHANGED <<registry, latch, call>>
     ELSE IF RefreshOutcome(work[c]) = "cancelled"
     THEN RefreshCancelled(c, call[c].key)
     ELSE RefreshFails(c, call[c].key)
  /\ UNCHANGED <<serde, now, storage, work, rel, doubleMark>>

\* faulty variant: storage.offer completes although nothing was written
OfferedNothing(st, key, e) == st

\* the storage once offer(key, offered_entry) has replaced the row of key
Offered(st, key, e) == [st EXCEPT ![key] = e]

\* the storage performs the write of the offer refresh c is suspended in
OfferWrites(c) ==
  /\ ref[c].pc = "await_offer"
  /\ ~ref[c].written
  /\ storage' = Offered(storage, call[c].key, ref[c].offered)
  /\ ref' = [ref EXCEPT ![c] = [@ EXCEPT !.written = TRUE]]
  /\ UNCHANGED <<serde, now, registry, latch, work, call, rel, doubleMark>>

\* faulty variant: a failure of storage.offer is swallowed
OfferRaisesNever(offerOk) == FALSE

\* `await storage().offer(...)` raises into refresh when the storage fails
OfferRaises(offerOk) == ~offerOk

\* what the eviction strategy may answer after a write: mark_written
\* raises, next_to_release raises, or next_to_release returns None or a key
EvictionAnswers == Keys \cup {"none", "mark_written_raised", "next_to_release_raised"}

\* the trace the eviction block (lines 109-121) leaves: the strategy was
\* notified and answered, or one of its calls raised and was logged
EvictionOutcome(ev) ==
  IF ev \in {"mark_written_raised", "next_to_release_raised"} THEN "raised" ELSE "notified"

\* faulty variant: an exception of the eviction strategy leaves the block
\* and reaches `except Exception` of refresh
ResultAfterEvictionPropagated(ev) ==
  IF ev \in {"mark_written_raised", "next_to_release_raised"} THEN "CMFE" ELSE "entry"

\* how refresh ends after the eviction block: `except Exception` logs and
\* `finally: return offered_entry` returns the entry whatever happened
ResultAfterEviction(ev) == "entry"

\* refresh resumed from `await storage().offer(key, offered_entry)`: the
\* offer returns once the storage has written, and raises when it failed,
\* before the write or after it; whatever happened to the storage since
\* the write is not looked at before mark_updated
RefreshOfferResume(c, offerOk, ev) ==
  /\ ref[c].pc = "await_offer"
  /\ offerOk => ref[c].written
  /\ LET key == call[c].key
         e == ref[c].offered
     IN IF ~OfferRaises(offerOk)
        THEN /\ latch' = FinallyLatch(RowRemoved(registry, key),
                                      Resolved(registry, latch, key, "entry", e), key, c)
             /\ registry' = RowRemoved(registry, key)
             /\ rel' = IF ev \in Keys
                       THEN [rel EXCEPT ![c] = [pc |-> "start", key |-> ev,
                                                out |-> "none", marked |-> FALSE]]
                       ELSE rel
             /\ ref' = [ref EXCEPT ![c] =
                          [@ EXCEPT !.pc = "done", !.out = ResultAfterEviction(ev),
                                    !.offered = NoEntry, !.written = FALSE,
                                    !.evict = EvictionOutcome(ev)]]
             /\ call' = [call EXCEPT ![c] =
                           IF ~Foreground(c) THEN @
                           ELSE IF ResultAfterEviction(ev) = "entry"
                           THEN Done(@, "value", e)
                           ELSE Done(@, "CMFE", NoEntry)]
        ELSE /\ RefreshFails(c, key)
             /\ UNCHANGED rel
  /\ UNCHANGED <<serde, now, storage, work, doubleMark>>

\* refresh resumed from `await update_status_tracker.await_updated(key)`
RefreshLatchResume(c) ==
  /\ ref[c].pc = "await_updated"
  /\ latch[ref[c].waitOn].status # "pending"
  /\ LET l == latch[ref[c].waitOn]
         ok == LatchOutcome(l.status) = "value"
     IN /\ ref' = [ref EXCEPT ![c] =
                     [@ EXCEPT !.pc = "done", !.waitOn = 0,
                               !.out = IF ok THEN "entry" ELSE "CMFE"]]
        /\ call' = [call EXCEPT ![c] =
                      IF ~Foreground(c) THEN @
                      ELSE IF ok THEN Done(@, "value", l.result)
                      ELSE Done(@, "CMFE", NoEntry)]
  /\ UNCHANGED <<serde, now, storage, registry, latch, work, rel, doubleMark>>

\* what becomes of the failure of await_updated in refresh (lines 83-86):
\* an exception object it returns is raised again as
\* CachedMethodFailedException, an exception it raises leaves refresh and
\* the wrapper as it is, no try being around the await
AwaitUpdatedFailure(raises) == IF raises THEN "TimeoutError" ELSE "CMFE"

\* await_updated of waiter c fails with a timeout: the latch it waits on
\* is still unresolved update_lock_timeout after its creation.  The
\* tracker hands the failure to the waiter as the result of the await or
\* raises it there; the refresh worker, its latch and the registry row are
\* left as they are
AwaitUpdatedTimeout(c, raises) ==
  /\ ref[c].pc = "await_updated"
  /\ latch[ref[c].waitOn].status = "pending"
  /\ now >= latch[ref[c].waitOn].created + UpdateLockTimeout
  /\ ref' = [ref EXCEPT ![c] = [@ EXCEPT !.pc = "done", !.waitOn = 0, !.out = "Timeout"]]
  /\ call' = [call EXCEPT ![c] =
                IF Foreground(c) THEN Done(@, AwaitUpdatedFailure(raises), NoEntry) ELSE @]
  /\ UNCHANGED <<serde, now, storage, registry, latch, work, rel, doubleMark>>

\* ------------------------------------------------------------ try_release
\* faulty variant: try_release does not look at the tracker
ReleaseRefusedNever(reg, key) == FALSE

\* `if update_status_tracker.is_being_updated(key): return False`
ReleaseRefused(reg, key) == IsBeingUpdated(reg, key)

\* try_release scheduled by the refresh of call c, up to
\* `await storage().release(key)` or its early return
ReleaseStart(c) ==
  /\ rel[c].pc = "start"
  /\ rel' = [rel EXCEPT ![c] =
               IF ReleaseRefused(registry, rel[c].key)
               THEN [pc |-> "done", key |-> NoKey, out |-> "false", marked |-> FALSE]
               ELSE [@ EXCEPT !.pc = "await_release"]]
  /\ UNCHANGED <<serde, now, storage, registry, latch, work, call, ref, doubleMark>>

\* what storage().release(key) and mark_released(key) can do
ReleaseAnswers == {"released", "release_raised", "mark_released_raised"}

\* try_release resumed from storage().release(key): mark_released is
\* called once release has returned; an exception of either is caught
\* by `except Exception` and try_release returns False
ReleaseResume(c, answer) ==
  /\ rel[c].pc = "await_release"
  /\ IF answer = "release_raised"
     THEN /\ rel' = [rel EXCEPT ![c] =
                       [pc |-> "done", key |-> NoKey, out |-> "false", marked |-> FALSE]]
          /\ UNCHANGED storage
     ELSE /\ storage' = [storage EXCEPT ![rel[c].key] = NoEntry]
          /\ rel' = [rel EXCEPT ![c] =
                       [pc |-> "done", key |-> NoKey, marked |-> TRUE,
                        out |-> IF answer = "released" THEN "true" ELSE "false"]]
  /\ UNCHANGED <<serde, now, registry, latch, work, call, ref, doubleMark>>

\* ------------------------------------------------------------ cancellation
\* faulty variant: no await of refresh runs under the safety net
SafetyNetCoversNone(pc) == FALSE

\* faulty variant: the rendezvous branch runs under the safety net too
SafetyNetCoversAll(pc) == TRUE

\* the suspension points of refresh inside `try: ... finally:` (lines 102-136)
SafetyNetCovers(pc) == pc \in {"await_value", "await_offer"}

\* how a request to cancel finds the pending value_future: the method is
\* still running ("none"), or it has just returned ("ok") or raised
\* ("raised") and wait_for was not resumed yet
CancelRaces == {"none", "ok", "raised"}

\* value_future (line 156) after it was asked to cancel: wait_for passes
\* the request on to a method that is still running and waits for its
\* end; when the method had already ended, wait_for delivers its outcome
\* and the request is lost
CancelRequested(raced) == IF raced = "none" THEN "cancelling" ELSE raced

\* the task of call c is cancelled while suspended.  At `await
\* value_future` with value_future still pending the cancellation is only
\* passed on to value_future: the caller stays suspended and refresh is
\* resumed when value_future is over, like from any other outcome of the
\* work.  At every other await CancelledError is raised there: it passes
\* the `except Exception` clauses and runs the finally block if the await
\* is inside the try; what a cancelled storage.offer had written stays
\* written
Cancel(c, raced) ==
  /\ call[c].pc \in {"get", "refresh"}
  /\ LET key == call[c].key
         inRefresh == call[c].pc = "refresh"
         covered == inRefresh /\ SafetyNetCovers(ref[c].pc)
     IN IF inRefresh /\ ref[c].pc = "await_value" /\ work[c] = "running"
        THEN /\ work' = [work EXCEPT ![c] = CancelRequested(raced)]
             /\ UNCHANGED <<call, ref, latch, registry>>
        ELSE /\ raced = "none"
             /\ call' = [call EXCEPT ![c] = Done(@, "Cancelled", NoEntry)]
             /\ ref' = IF inRefresh
                       THEN [ref EXCEPT ![c] =
                               [@ EXCEPT !.pc = "done", !.out = "Cancelled", !.waitOn = 0,
                                         !.offered = NoEntry, !.started = -1,
                                         !.written = FALSE]]
                       ELSE ref
             /\ IF covered
                THEN /\ latch' = FinallyLatch(registry, latch, key, c)
                     /\ registry' = RowRemoved(registry, key)
                ELSE UNCHANGED <<latch, registry>>
             /\ UNCHANGED work
  /\ UNCHANGED <<serde, now, storage, rel, doubleMark>>

\* ------------------------------------------------------------ invalidation
\* InvalidationSupport.invalidate(args): storage().release(key) of the
\* derived key, whether or not a refresh of the key is in flight
Invalidate(key) ==
  /\ storage[key] # NoEntry
  /\ storage' = [storage EXCEPT ![key] = NoEntry]
  /\ UNCHANGED <<serde, now, registry, latch, work, call, ref, rel, doubleMark>>

\* ------------------------------------------------------------ clock
Tick ==
  /\ now < MaxTime
  /\ now' = now + 1
  /\ UNCHANGED <<serde, storage, registry, latch, work, call, ref, rel, doubleMark>>

\* every step of the program
Next ==
  \/ \E c \in Calls, conf \in BOOLEAN, key \in CallKeys, force \in BOOLEAN :
       WrapperCall(c, conf, key, force)
  \/ \E c \in Calls, getOk \in BOOLEAN, readOk \in BOOLEAN : WrapperResume(c, getOk, readOk)
  \/ \E c \in Calls : BackgroundStart(c)
  \/ \E c \in Calls, outcome \in WorkOutcomes : WorkDone(c, outcome)
  \/ \E c \in Calls : RefreshValueResume(c)
  \/ \E c \in Calls : OfferWrites(c)
  \/ \E c \in Calls, offerOk \in BOOLEAN, ev \in EvictionAnswers :
       RefreshOfferResume(c, offerOk, ev)
  \/ \E c \in Calls : RefreshLatchResume(c)
  \/ \E c \in Calls, raises \in BOOLEAN : AwaitUpdatedTimeout(c, raises)
  \/ \E c \in Calls : ReleaseStart(c)
  \/ \E c \in Calls, answer \in ReleaseAnswers : ReleaseResume(c, answer)
  \/ \E c \in Calls, raced \in CancelRaces : Cancel(c, raced)
  \/ \E key \in CallKeys : Invalidate(key)
  \/ Tick

Spec == Init /\ [][Next]_vars

\* the calls with every failure of the collaborators, no task cancelled
\* from outside and no invalidation; the eviction strategy of this
\* configuration nominates nothing (it answers None or raises)
CoreNext ==
  \/ \E c \in Calls, conf \in BOOLEAN, key \in CallKeys, force \in BOOLEAN :
       WrapperCall(c, conf, key, force)
  \/ \E c \in Calls, getOk \in BOOLEAN, readOk \in BOOLEAN : WrapperResume(c, getOk, readOk)
  \/ \E c \in Calls : BackgroundStart(c)
  \/ \E c \in Calls, outcome \in WorkOutcomes : WorkDone(c, outcome)
  \/ \E c \in Calls : RefreshValueResume(c)
  \/ \E c \in Calls : OfferWrites(c)
  \/ \E c \in Calls, offerOk \in BOOLEAN, ev \in EvictionAnswers \ Keys :
       RefreshOfferResume(c, offerOk, ev)
  \/ \E c \in Calls : RefreshLatchResume(c)
  \/ \E c \in Calls, raises \in BOOLEAN : AwaitUpdatedTimeout(c, raises)
  \/ Tick

CoreSpec == Init /\ [][CoreNext]_vars

\* at most EvictCallers calls with every failure of the collaborators,
\* an eviction strategy that may nominate any key after a write or
\* raise, and the releases it causes
EvictNext ==
  \/ \E c \in Calls, conf \in BOOLEAN, key \in CallKeys, force \in BOOLEAN :
       c <= EvictCallers /\ WrapperCall(c, conf, key, force)
  \/ \E c \in Calls, getOk \in BOOLEAN, readOk \in BOOLEAN : WrapperResume(c, getOk, readOk)
  \/ \E c \in Calls : BackgroundStart(c)
  \/ \E c \in Calls, outcome \in WorkOutcomes : WorkDone(c, outcome)
  \/ \E c \in Calls : RefreshValueResume(c)
  \/ \E c \in Calls : OfferWrites(c)
  \/ \E c \in Calls, offerOk \in BOOLEAN, ev \in EvictionAnswers :
       RefreshOfferResume(c, offerOk, ev)
  \/ \E c \in Calls : RefreshLatchResume(c)
  \/ \E c \in Calls, raises \in BOOLEAN : AwaitUpdatedTimeout(c, raises)
  \/ \E c \in Calls : ReleaseStart(c)
  \/ \E c \in Calls, answer \in ReleaseAnswers : ReleaseResume(c, answer)
  \/ Tick

EvictSpec == Init /\ [][EvictNext]_vars

\* the calls that reach refresh, under cancellation and invalidation: a
\* caller's task may be cancelled at any of its awaits and an entry may be
\* invalidated at any time; the configuration is configured, storage.get
\* and mark_read answer and the eviction strategy nominates nothing
FaultNext ==
  \/ \E c \in Calls, key \in CallKeys, force \in BOOLEAN : WrapperCall(c, TRUE, key, force)
  \/ \E c \in Calls : WrapperResume(c, TRUE, TRUE)
  \/ \E c \in Calls : BackgroundStart(c)
  \/ \E c \in Calls, outcome \in WorkOutcomes : WorkDone(c, outcome)
  \/ \E c \in Calls : RefreshValueResume(c)
  \/ \E c \in Calls : OfferWrites(c)
  \/ \E c \in Calls, offerOk \in BOOLEAN : RefreshOfferResume(c, offerOk, "none")
  \/ \E c \in Calls : RefreshLatchResume(c)
  \/ \E c \in Calls, raises \in BOOLEAN : AwaitUpdatedTimeout(c, raises)
  \/ \E c \in Calls, raced \in CancelRaces : Cancel(c, raced)
  \/ \E key \in CallKeys : Invalidate(key)
  \/ Tick

FaultSpec == Init /\ [][FaultNext]_vars

\* what the event loop guarantees: the clock advances, the timeout of
\* await_updated (update_lock_timeout) fires when it is due, and a
\* coroutine whose awaited future is done is resumed. The user work need
\* never end (a method that catches the CancelledError of wait_for and
\* goes on waiting keeps value_future pending, also after a caller asked
\* value_future to cancel), and the storage is not timed and may never
\* answer
Fairness ==
  /\ WF_vars(Tick)
  /\ \A c \in Calls :
       /\ WF_vars(RefreshValueResume(c))
       /\ WF_vars(RefreshLatchResume(c))
       /\ WF_vars(\E raises \in BOOLEAN : AwaitUpdatedTimeout(c, raises))

\* the calls that reach refresh, under cancellation: the configuration is
\* configured, no call carries the force flag, storage.get and mark_read
\* answer and the eviction strategy nominates nothing
LiveNext ==
  \/ \E c \in Calls, key \in CallKeys : WrapperCall(c, TRUE, key, FALSE)
  \/ \E c \in Calls : WrapperResume(c, TRUE, TRUE)
  \/ \E c \in Calls : BackgroundStart(c)
  \/ \E c \in Calls, outcome \in WorkOutcomes : WorkDone(c, outcome)
  \/ \E c \in Calls : RefreshValueResume(c)
  \/ \E c \in Calls : OfferWrites(c)
  \/ \E c \in Calls, offerOk \in BOOLEAN : RefreshOfferResume(c, offerOk, "none")
  \/ \E c \in Calls : RefreshLatchResume(c)
  \/ \E c \in Calls, raises \in BOOLEAN : AwaitUpdatedTimeout(c, raises)
  \/ \E c \in Calls, raced \in CancelRaces : Cancel(c, raced)
  \/ Tick

LiveSpec == Init /\ [][LiveNext]_vars /\ Fairness

TypeOK ==
  /\ now \in Times
  /\ \A k \in Keys : registry[k] \in 0..NCalls

\* ======================================================================
\* SerDe of the storage layer (memoize.serde, exercised by
\* src/tests/unit/test_serde.py)
\* ======================================================================
\* A datetime is its wall-clock reading t and whether it carries tzinfo
\* (aware, always UTC here) or not (naive).
MaxStamp == 3
Stamps == 1..MaxStamp
DateTimes == [t : Stamps, aware : BOOLEAN]

\* offsets of the local time zone from UTC the process may run under
LocalOffsets == {-1, 0, 1}

\* cached values handed to a SerDe
SerDeValues == {0, 1}

\* entries handed to a SerDe: created <= update_after <= expires_after,
\* all three stamped by one builder (all aware or all naive)
SerDeEntries ==
  {e \in [created : DateTimes, update_after : DateTimes,
          expires_after : DateTimes, value : SerDeValues] :
     /\ e.created.t <= e.update_after.t /\ e.update_after.t <= e.expires_after.t
     /\ e.created.aware = e.update_after.aware
     /\ e.created.aware = e.expires_after.aware}

\* the SerDes: PickleSerDe, JsonSerDe with the default (identity) value
\* transformations, JsonSerDe with configured transformations, and
\* EncodingSerDe around a pickle or a default json SerDe
SerDeImpls == {"pickle", "json", "json_repr", "encoding_pickle", "encoding_json"}

\* datetime.timestamp(): a naive datetime is read as local time
Timestamp(dt, offset) == IF dt.aware THEN dt.t ELSE dt.t - offset

\* datetime.utcfromtimestamp(x): the naive UTC reading of x
UtcFromTimestamp(x) == [t |-> x, aware |-> FALSE]

\* value_to_reversible_repr / reversible_repr_to_value of a JsonSerDe: the
\* identity unless configured, and then inverse of one another
ReprShift == 10
ValueToReversibleRepr(impl, v) == IF impl = "json_repr" THEN v + ReprShift ELSE v
ReversibleReprToValue(impl, r) == IF impl = "json_repr" THEN r - ReprShift ELSE r

\* pickle.dumps / pickle.loads of a datetime: every attribute is written
PickleDateTime(dt) == <<dt.t, IF dt.aware THEN 1 ELSE 0>>
UnpickleDateTime(b, i) == [t |-> b[i], aware |-> b[i + 1] = 1]

\* PickleSerDe.serialize / deserialize
PickleSerialize(e) ==
  PickleDateTime(e.created) \o PickleDateTime(e.update_after)
    \o PickleDateTime(e.expires_after) \o <<e.value>>
PickleDeserialize(b) ==
  [created |-> UnpickleDateTime(b, 1), update_after |-> UnpickleDateTime(b, 3),
   expires_after |-> UnpickleDateTime(b, 5), value |-> b[7]]

\* JsonSerDe.serialize / deserialize: the three instants as timestamps,
\* the value through the configured transformation
JsonSerialize(impl, e, offset) ==
  <<Timestamp(e.created, offset), Timestamp(e.update_after, offset),
    Timestamp(e.expires_after, offset), ValueToReversibleRepr(impl, e.value)>>
JsonDeserialize(impl, b) ==
  [created |-> UtcFromTimestamp(b[1]), update_after |-> UtcFromTimestamp(b[2]),
   expires_after |-> UtcFromTimestamp(b[3]),
   value |-> ReversibleReprToValue(impl, b[4])]

\* codecs.encode / codecs.decode with the binary encoding: every byte is
\* regrouped into two symbols and back
SymbolBase == 4
BinaryEncode(b) ==
  [i \in 1..(2 * Len(b)) |->
     IF i % 2 = 1 THEN b[(i + 1) \div 2] \div SymbolBase
     ELSE b[i \div 2] % SymbolBase]
BinaryDecode(x) ==
  [i \in 1..(Len(x) \div 2) |-> x[2 * i - 1] * SymbolBase + x[2 * i]]

\* the SerDe an EncodingSerDe wraps
Wrapped(impl) == IF impl = "encoding_pickle" THEN "pickle" ELSE "json"

\* serialize of the plain SerDes
InnerSerialize(impl, e, offset) ==
  IF impl = "pickle" THEN PickleSerialize(e) ELSE JsonSerialize(impl, e, offset)
InnerDeserialize(impl, b) ==
  IF impl = "pickle" THEN PickleDeserialize(b) ELSE JsonDeserialize(impl, b)

\* SerDe.serialize(entry) and SerDe.deserialize(bytes) of every implementation
Serialize(impl, e, offset) ==
  IF impl \in {"pickle", "json", "json_repr"} THEN InnerSerialize(impl, e, offset)
  ELSE BinaryEncode(InnerSerialize(Wrapped(impl), e, offset))
Deserialize(impl, b) ==
  IF impl \in {"pickle", "json", "json_repr"} THEN InnerDeserialize(impl, b)
  ELSE InnerDeserialize(Wrapped(impl), BinaryDecode(b))

SerDeInit ==
  /\ now = 0
  /\ storage = [k \in Keys |-> InitialEntry]
  /\ registry = [k \in Keys |-> 0]
  /\ latch = [c \in Calls |-> NoLatch]
  /\ work = [c \in Calls |-> "none"]
  /\ call = [c \in Calls |-> IdleCall]
  /\ ref = [c \in Calls |-> NoRef]
  /\ rel = [c \in Calls |-> NoRel]
  /\ doubleMark = FALSE
  /\ \E impl \in SerDeImpls, e \in SerDeEntries, offset \in LocalOffsets :
       serde = [pc |-> "entry", impl |-> impl, offset |-> offset, entry |-> e,
                bytes |-> <<>>, out |-> e]

\* storage hands the entry to its SerDe
SerDeSerialize ==
  /\ serde.pc = "entry"
  /\ serde' = [serde EXCEPT !.pc = "bytes",
                            !.bytes = Serialize(serde.impl, serde.entry, serde.offset)]
  /\ UNCHANGED <<now, storage, registry, latch, work, call, ref, rel, doubleMark>>

\* storage reads the bytes back through its SerDe
SerDeDeserialize ==
  /\ serde.pc = "bytes"
  /\ serde' = [serde EXCEPT !.pc = "deserialized",
                            !.out = Deserialize(serde.impl, serde.bytes)]
  /\ UNCHANGED <<now, storage, registry, latch, work, call, ref, rel, doubleMark>>

SerDeNext == SerDeSerialize \/ SerDeDeserialize

SerDeSpec == SerDeInit /\ [][SerDeNext]_vars

\* ======================================================================
\* Properties
\* ======================================================================

\* call c is resumed from storage().get(key) with an answer of the storage
Observes(c) == call[c].pc = "get" /\ call'[c].pc # "get" /\ call'[c].kind # "StorageError"

\* the wrapper coroutine of call c returns or raises in this step
Completes(c) == call[c].pc # "done" /\ call'[c].pc = "done"

\* the entry storage().get(key) hands to call c when it is resumed now
Entry(c) == storage[call[c].key]

\* the instant `now` call c read (or reads in this step) after storage().get
NowRead(c) == IF call[c].pc = "get" THEN now ELSE call[c].now

\* C1: for every key the registry holds at most one unresolved latch: an
\* unresolved latch is the one registered for its key, and refresh never
\* calls mark_being_updated on a key that has a registered latch.
C1_SingleLatch ==
  /\ ~doubleMark
  /\ \A l \in Calls : latch[l].status = "pending" => registry[call[l].key] = l
  /\ \A k \in Keys :
       Cardinality({l \in Calls : latch[l].status = "pending" /\ call[l].key = k}) <= 1

\* a second call reached refresh while the first one's latch was registered
C1_Witness ==
  \E a, b \in Calls :
    /\ a # b
    /\ latch[a].status = "pending" /\ registry[call[a].key] = a
    /\ ref[b].pc = "await_updated" /\ ref[b].waitOn = a

\* calls that found no entry and are inside refresh at the same time
InFlightMiss == {c \in Calls : call[c].pc = "refresh" /\ call[c].branch = "miss"}

\* what single flight demands of calls on a missing key that are in
\* refresh together: at most one of them invoked the user method, only
\* the starter of a latch invoked it, and the calls that joined one latch
\* (its starter and its waiters, concurrent by construction) ended the
\* same way
SingleFlight ==
  /\ Cardinality({c \in InFlightMiss : work[c] # "none"}) <= 1
  /\ \A l \in Calls :
       Cardinality({c \in Calls : ref[c].joined = l /\ work[c] # "none"}) <= 1
  /\ \A a, b \in Calls :
       ( /\ call[a].pc = "done" /\ call[a].branch = "miss"
         /\ call[b].pc = "done" /\ call[b].branch = "miss"
         /\ ref[a].joined # 0 /\ ref[a].joined = ref[b].joined )
       => (call[a].kind = call[b].kind /\ call[a].value = call[b].value)

\* C2 as stated, for the concurrent calls that met in refresh: calls on a
\* missing key invoke the user method at most once and all end the same
\* way, every one with the same value or every one with
\* CachedMethodFailedException.
C2_Original == SingleFlight

\* C3 as stated: no call returns the value of an entry that was
\* hard-expired at the instant `now` the call read after storage.get.
C3_NoExpiredValue ==
  [][\A c \in Calls :
       (Completes(c) /\ call'[c].kind = "value")
       => call'[c].res.expires_after > NowRead(c)]_vars

\* call c observes a soft-stale entry and carries no force flag
SoftStaleSeen(c) ==
  /\ Observes(c) /\ ~call[c].force /\ Entry(c) # NoEntry
  /\ Entry(c).update_after <= now /\ now < Entry(c).expires_after

\* C4: a call that finds a soft-stale entry returns the post-processed
\* value of that entry in the very step it was resumed from storage.get:
\* the refresh is only scheduled, no user work has started, registry and
\* storage are untouched, and the returned value never changes afterwards.
C4_SoftStale ==
  [][\A c \in Calls :
       /\ SoftStaleSeen(c) =>
            /\ call'[c].pc = "done" /\ call'[c].kind = "value"
            /\ call'[c].value = Apply(Entry(c).value)
            /\ ref'[c].pc = "bgstart" /\ work'[c] = "none"
            /\ UNCHANGED <<work, registry, latch, storage>>
       /\ call[c].pc = "done" => call'[c] = call[c]]_vars

\* call c observes a fresh entry
FreshSeen(c) == Observes(c) /\ Entry(c) # NoEntry /\ now < Entry(c).update_after

\* a fresh hit: the call returns the post-processed value of the observed
\* entry, starts no refresh and changes neither registry nor storage
FreshHit(c) ==
  /\ call'[c].pc = "done" /\ call'[c].kind = "value"
  /\ call'[c].value = Apply(Entry(c).value)
  /\ ref'[c] = ref[c]
  /\ UNCHANGED <<work, registry, latch, storage>>

\* C5 as stated: every call that observes a fresh entry returns its
\* post-processed value without invoking the user method or changing the
\* registry or the storage.
C5_Original == [][\A c \in Calls : FreshSeen(c) => FreshHit(c)]_vars

\* C6 as stated: a call with the force flag does not return a value
\* before a refresh of its key completed after the call started: it never
\* returns a value in the step it is resumed from storage.get.
C6_ForceBlocks ==
  [][\A c \in Calls :
       (call[c].pc = "get" /\ call[c].force /\ call'[c].pc = "done")
       => call'[c].kind # "value"]_vars

\* what happens around a refresh whose user work raised (an Exception or
\* CancelledError) or timed out:
\* the resumed refresh stores nothing, ends with
\* CachedMethodFailedException, leaves its latch resolved with a failure
\* and no registry row for the key; a waiter resumed on a failed latch ends
\* with CachedMethodFailedException; and a call that then finds the key
\* missing and unregistered invokes the user method again
FailedRefresh(c) ==
  /\ ( /\ ref[c].pc = "await_value" /\ ref'[c].pc # "await_value"
       /\ work[c] \in {"raised", "cancelled", "timeout"} ) =>
       /\ storage' = storage
       /\ ref'[c].pc = "done" /\ ref'[c].out = "CMFE"
       /\ Foreground(c) => (call'[c].pc = "done" /\ call'[c].kind = "CMFE")
       /\ registry'[call[c].key] = 0
       /\ latch'[c].status = "failed"
  /\ ( /\ ref[c].pc = "await_updated" /\ ref'[c].pc # "await_updated"
       /\ latch[ref[c].waitOn].status = "failed" ) =>
       /\ ref'[c].out = "CMFE"
       /\ Foreground(c) => (call'[c].pc = "done" /\ call'[c].kind = "CMFE")
  /\ ( /\ Observes(c) /\ Entry(c) = NoEntry /\ registry[call[c].key] = 0
       /\ call'[c].pc = "refresh" ) => work'[c] = "running"

\* C7 as stated: when the user work of a refresh raises or times out,
\* nothing is stored, the refreshing caller and every waiter on its latch
\* fail with CachedMethodFailedException, the registry row is removed and
\* the next call invokes the user method again.
C7_Original == [][\A c \in Calls : FailedRefresh(c)]_vars

\* C8 as stated: when a call that took a blocking-refresh branch returns a
\* value, the storage holds for its key an entry created at or after the
\* time the call started.
C8_StoredAfterBlocking ==
  [][\A c \in Calls :
       (Completes(c) /\ call'[c].kind = "value" /\ Blocking(call'[c].branch))
       => /\ storage'[call'[c].key] # NoEntry
          /\ storage'[call'[c].key].created >= call[c].start]_vars

\* C9 as stated: a failure of storage.get never reaches the caller.
C9_GetFailureHidden == \A c \in Calls : call[c].kind # "StorageError"

\* C10: a call made while the configuration is not configured ends at
\* once with NotConfiguredCacheCalledException: no key is derived, and
\* storage, registry, latches, user work and background tasks are unchanged.
C10_NotConfigured ==
  [][\A c \in Calls :
       (call[c].pc = "idle" /\ call'[c].pc # "idle" /\ ~call'[c].conf)
       => /\ call'[c].pc = "done" /\ call'[c].kind = "NotConfigured"
          /\ call'[c].key = NoKey
          /\ UNCHANGED <<storage, registry, latch, work, ref, rel>>]_vars

\* a call ended with NotConfiguredCacheCalledException
C10_Witness ==
  \E c \in Calls :
    call[c].pc = "done" /\ ~call[c].conf /\ call[c].kind = "NotConfigured"

\* the refresh of call c claimed its key and is suspended in the start branch
InStartBranch(c) == ref[c].pc \in {"await_value", "await_offer"}

\* a latch that carries an outcome
Settled(l) == l.status \in {"entry", "failed"}

\* the latch l is resolved with an entry in this step
ResolvesWithEntry(l) == latch[l].status = "pending" /\ latch'[l].status = "entry"

\* the waiter c is released by its latch with an entry in this step
ReleasedWithEntry(c) ==
  /\ ref[c].pc = "await_updated" /\ ref'[c].pc = "done" /\ ref'[c].out = "entry"

\* the entry the latch hands to waiter c
Handed(c) == latch[ref[c].waitOn].result

\* the storage holds for the key of c an entry at least as fresh as e
AtLeastAsFresh(c, e) ==
  storage[call[c].key] # NoEntry /\ storage[call[c].key].created >= e.created

\* C12 as stated: whenever a latch is resolved with an entry E the storage
\* holds E for the key, and whenever a waiter is released with E the
\* storage holds an entry at least as fresh as E.
C12_Original ==
  [][/\ \A l \in Calls :
          ResolvesWithEntry(l) => storage'[call[l].key] = latch'[l].result
     /\ \A c \in Calls :
          ReleasedWithEntry(c) => AtLeastAsFresh(c, Handed(c))]_vars

\* C12 amended: a latch is resolved with an entry E only after the
\* storage has written E for the key, and at that moment the storage
\* holds E or, when a release removed it since, no entry for the key;
\* whenever a waiter is released with E the storage holds either no entry
\* for the key or an entry at least as fresh as E.
C12_OfferBeforeLatch ==
  [][/\ \A l \in Calls :
          ResolvesWithEntry(l) =>
            /\ ref[l].written
            /\ storage'[call[l].key] \in {NoEntry, latch'[l].result}
     /\ \A c \in Calls :
          ReleasedWithEntry(c) =>
            (storage[call[c].key] = NoEntry \/ AtLeastAsFresh(c, Handed(c)))]_vars

\* a waiter was handed the entry of a refresh and the storage holds it
C12_Witness ==
  \E a, b \in Calls :
    /\ a # b /\ ref[a].joined = a /\ ref[b].joined = a
    /\ ref[a].out = "entry" /\ ref[b].out = "entry"
    /\ call[b].pc = "done" /\ call[b].kind = "value"
    /\ latch[a].status = "entry" /\ storage[call[b].key] = latch[a].result
    /\ call[b].res = latch[a].result

\* C13: when a refresh that claimed its key leaves refresh on any path,
\* the latch it created carries an outcome and the registry holds no row
\* of that refresh; and a latch that carries an outcome never changes.
C13_LatchSettled ==
  [][/\ \A c \in Calls :
          (InStartBranch(c) /\ ref'[c].pc = "done")
          => (Settled(latch'[c]) /\ registry'[call[c].key] # c)
     /\ \A l \in Calls : Settled(latch[l]) => latch'[l] = latch[l]]_vars

\* a refreshing caller was cancelled while its latch was unresolved: the
\* latch carries a failure and the key has no row
C13_Witness ==
  \E c \in Calls :
    /\ call[c].pc = "done" /\ call[c].kind = "Cancelled" /\ ref[c].joined = c
    /\ latch[c].status = "failed" /\ registry[call[c].key] = 0

\* call c is suspended in await_updated
Waiting(c) == ref[c].pc = "await_updated"

\* the refresh c waits on is still awaiting the user work or the storage
\* and the deadline of its latch lies beyond the modelled time
BeyondHorizon(c) ==
  /\ ref[c].waitOn # 0
  /\ latch[ref[c].waitOn].status = "pending"
  /\ latch[ref[c].waitOn].created + UpdateLockTimeout > MaxTime
  /\ \/ ref[ref[c].waitOn].pc = "await_offer"
     \/ /\ ref[ref[c].waitOn].pc = "await_value"
        /\ work[ref[c].waitOn] \in {"running", "cancelling"}

\* no waiter is stranded: a waiter's latch is unresolved only while the
\* refresh that created it is still inside refresh
NotStranded(c) ==
  (Waiting(c) /\ latch[ref[c].waitOn].status = "pending")
    => InStartBranch(ref[c].waitOn)

\* C14: no waiter is ever stranded on a latch whose refresh is gone, and
\* under fair scheduling every caller suspended in await_updated
\* eventually resumes, whatever becomes of the refresh; the one wait the
\* model leaves open is on a refresh that hangs in the user work or in
\* storage.offer while the deadline of its latch lies beyond the modelled
\* time.
C14_WaitersResume ==
  /\ [](\A c \in Calls : NotStranded(c))
  /\ \A c \in Calls : Waiting(c) ~> (~Waiting(c) \/ BeyondHorizon(c))

\* a waiter was resumed by the timeout of await_updated while the
\* refresh it waited on was still awaiting a user work that had outlived
\* method_timeout
C14_Witness ==
  \E a, b \in Calls :
    /\ a # b /\ ref[b].joined = a /\ ref[b].pc = "done" /\ ref[b].out = "Timeout"
    /\ call[b].pc = "done" /\ call[b].kind = "CMFE"
    /\ latch[a].status = "pending" /\ ref[a].pc = "await_value"
    /\ work[a] = "running" /\ now > ref[a].started + MethodTimeout

\* storage.offer of the refresh of call c fails in this step: the refresh
\* leaves `await storage().offer` uncancelled, and its entry was not
\* written or the refresh does not end with the entry
OfferFails(c) ==
  /\ ref[c].pc = "await_offer" /\ ref'[c].pc = "done"
  /\ ref'[c].out # "Cancelled"
  /\ ~ref[c].written \/ ref'[c].out # "entry"

\* what follows a failed storage.offer: in that step the refresh ends
\* with CachedMethodFailedException, its latch carries a failure, the key
\* has no row, the storage is unchanged and the eviction side sees
\* nothing; a waiter resumed on a latch that carries a failure ends with
\* CachedMethodFailedException; and once the refresh and a waiter its
\* latch resumed are both over, both failed
OfferFailure(c) ==
  /\ OfferFails(c) =>
       /\ ref'[c].out = "CMFE"
       /\ Foreground(c) => (call'[c].pc = "done" /\ call'[c].kind = "CMFE")
       /\ latch'[c].status = "failed"
       /\ registry'[call[c].key] = 0
       /\ ref'[c].evict = "none"
       /\ UNCHANGED <<storage, rel>>
  /\ ( /\ ref[c].pc = "await_updated" /\ ref'[c].pc # "await_updated"
       /\ latch[ref[c].waitOn].status = "failed" ) =>
       /\ ref'[c].out = "CMFE"
       /\ Foreground(c) => (call'[c].pc = "done" /\ call'[c].kind = "CMFE")
  /\ \A w \in Calls :
       ( /\ w # c /\ ref'[w].joined = c /\ ref'[w].pc = "done"
         /\ ref'[w].out # "Timeout"
         /\ ref'[c].joined = c /\ ref'[c].pc = "done"
         /\ work'[c] = "ok" /\ ref'[c].out = "CMFE" )
       => (call'[w].pc = "done" /\ call'[w].kind = "CMFE")

\* C15: when storage.offer fails after the user work succeeded, the
\* latch is resolved with a failure and the row removed, the refreshing
\* caller and all waiters fail with CachedMethodFailedException, and
\* mark_written is not called.
C15_OfferFailure == [][\A c \in Calls : OfferFailure(c)]_vars

\* a refresh whose storage.offer failed and a waiter on its latch both
\* ended with CachedMethodFailedException; nothing was stored and the
\* eviction strategy was not notified
C15_Witness ==
  \E a, b \in Calls :
    /\ a # b /\ work[a] = "ok"
    /\ call[a].pc = "done" /\ call[a].kind = "CMFE" /\ ref[a].joined = a
    /\ call[b].pc = "done" /\ call[b].kind = "CMFE" /\ ref[b].joined = a
    /\ latch[a].status = "failed" /\ ref[a].evict = "none"
    /\ storage[call[a].key] = NoEntry /\ registry[call[a].key] = 0

\* storage.offer of the refresh of call c, having written the entry,
\* returns to the refresh in this step and the refresh reaches the
\* eviction block
OfferStored(c) ==
  /\ ref[c].pc = "await_offer" /\ ref'[c].pc = "done"
  /\ ref[c].written /\ ref'[c].evict # "none"

\* a step of the try_release task scheduled by the refresh of call c
ReleaseStep(c) == rel[c].pc \in {"start", "await_release"} /\ rel'[c] # rel[c]

\* C16: in the step in which a refresh has stored its entry and resolved
\* the latch, whatever the eviction strategy does (mark_written or
\* next_to_release raising included) the refresh returns the offered
\* entry to its caller, a latch it resolves carries that entry, and a
\* nominated release is only scheduled: no other key of the storage
\* changes in that step; and no step of the release task, failing or
\* not, changes a call, a refresh, a latch or the registry.
C16_EvictionAdvisory ==
  [][/\ \A c \in Calls :
          OfferStored(c) =>
            /\ ref'[c].out = "entry" /\ ref'[c].evict \in {"notified", "raised"}
            /\ Foreground(c) =>
                 /\ call'[c].pc = "done" /\ call'[c].kind = "value"
                 /\ call'[c].res = ref[c].offered
            /\ latch[c].status = "pending" =>
                 (latch'[c].status = "entry" /\ latch'[c].result = ref[c].offered)
            /\ \A d \in Calls : rel'[d] # rel[d] => (d = c /\ rel'[d].pc = "start")
            /\ \A k \in Keys \ {call[c].key} : storage'[k] = storage[k]
     /\ \A c \in Calls :
          ReleaseStep(c) => UNCHANGED <<call, ref, latch, registry, work>>]_vars

\* the eviction strategy raised after a refresh had stored its entry: the
\* refreshing caller and a waiter on its latch both returned that entry
C16_Witness ==
  \E a, b \in Calls :
    /\ a # b /\ ref[a].joined = a /\ ref[b].joined = a
    /\ ref[a].pc = "done" /\ ref[a].evict = "raised"
    /\ call[a].pc = "done" /\ call[a].kind = "value"
    /\ call[b].pc = "done" /\ call[b].kind = "value"
    /\ call[a].res = call[b].res /\ call[a].res.value = UserValue(a)

\* call c enters refresh in this step (from the wrapper or as the
\* detached soft-stale refresh)
EntersRefresh(c) ==
  /\ \/ call[c].pc = "get" /\ call'[c].pc # "get" /\ call'[c].kind # "StorageError"
        /\ call'[c].branch \notin {"fresh", "soft"}
     \/ ref[c].pc = "bgstart"
  /\ ref'[c].pc # ref[c].pc

\* value_future_provider raised in the step in which c entered refresh
StartFailed(c) == EntersRefresh(c) /\ ref'[c].pc = "done" /\ ref'[c].out = "CMFE"

\* C17: when value_future_provider raises in the start branch the call
\* fails with CachedMethodFailedException and registry, latches, storage
\* and user work are unchanged, with no row for the key; and a call
\* that enters refresh while the key has no row never waits: it starts
\* its own refresh (or fails to start).
C17_FailedStart ==
  [][\A c \in Calls :
       /\ StartFailed(c) =>
            /\ call'[c].branch # "soft" =>
                 (call'[c].pc = "done" /\ call'[c].kind = "CMFE")
            /\ registry' = registry /\ latch' = latch
            /\ storage' = storage /\ work' = work
            /\ registry'[call'[c].key] = 0
            /\ latch'[c].status = "none"
       /\ (EntersRefresh(c) /\ registry[call'[c].key] = 0) =>
            \/ ref'[c].pc = "await_value" /\ registry'[call'[c].key] = c
            \/ StartFailed(c)]_vars

\* call a failed to start its refresh and call b of the same key ran
\* its own refresh and returned its own value
C17_Witness ==
  \E a, b \in Calls :
    /\ a # b /\ call[a].key = call[b].key
    /\ call[a].pc = "done" /\ call[a].kind = "CMFE" /\ ref[a].joined = 0
    /\ ref[b].joined = b /\ call[b].pc = "done" /\ call[b].kind = "value"
    /\ call[b].res.value = UserValue(b)

\* call c enters refresh with a current entry (forced call or detached
\* soft-stale refresh) while the key has a refresh in flight
JoinsWithEntry(c) ==
  /\ EntersRefresh(c)
  /\ registry[call'[c].key] # 0
  /\ call'[c].branch \in {"force", "soft"}

\* C18: a refresh entered with a current entry for a key whose refresh
\* is in flight ends in the same step with that entry: a forced caller
\* returns the entry it read, no user work is started, and registry,
\* latches, storage and every other refresh are unchanged.
C18_ReturnsCurrent ==
  [][\A c \in Calls :
       JoinsWithEntry(c) =>
         /\ ref'[c].pc = "done" /\ ref'[c].out = "entry" /\ ref'[c].joined = 0
         /\ call'[c].branch = "force" =>
              /\ call'[c].pc = "done" /\ call'[c].kind = "value"
              /\ call'[c].res = storage[call'[c].key]
         /\ call'[c].branch = "soft" => call'[c] = call[c]
         /\ work' = work /\ registry' = registry
         /\ latch' = latch /\ storage' = storage
         /\ \A d \in Calls \ {c} : ref'[d] = ref[d] /\ call'[d] = call[d]]_vars

\* a forced call returned the current entry while the refresh of another
\* call for its key was still awaiting the user work; a detached
\* soft-stale refresh ended the same way
C18_Witness ==
  /\ \E c, d \in Calls :
       /\ c # d /\ call[c].key = call[d].key
       /\ call[c].branch = "force" /\ call[c].pc = "done" /\ call[c].kind = "value"
       /\ ref[c].pc = "done" /\ ref[c].out = "entry" /\ ref[c].joined = 0
       /\ registry[call[c].key] = d /\ ref[d].pc = "await_value"
       /\ work[c] = "none"
  /\ \E c \in Calls :
       /\ call[c].branch = "soft"
       /\ ref[c].pc = "done" /\ ref[c].out = "entry" /\ ref[c].joined = 0

\* the task of call c is cancelled in this step while suspended in
\* await_updated
WaiterCancelled(c) ==
  /\ ref[c].pc = "await_updated"
  /\ call'[c].pc = "done" /\ call'[c].kind = "Cancelled"

\* call d went through await_updated on the latch of another call and
\* was resumed by it
Resumed(d) ==
  /\ ref[d].joined \notin {0, d}
  /\ ref[d].pc = "done" /\ ref[d].out \in {"entry", "CMFE"}

\* call d went through await_updated on the latch of another call and
\* was resumed by the timeout of await_updated
TimedOut(d) ==
  /\ ref[d].joined \notin {0, d}
  /\ ref[d].pc = "done" /\ ref[d].out = "Timeout"

\* C19: the step that cancels a caller suspended in await_updated leaves
\* registry, latches, storage, user work and every other call and
\* refresh as they were; and every waiter resumed by a latch, cancelled
\* fellow waiters or not, has received the outcome of that latch: its
\* entry, or CachedMethodFailedException for a failure (a waiter whose
\* await_updated timed out has failed with the timeout).
C19_WaiterCancelled ==
  /\ [][\A c \in Calls :
          WaiterCancelled(c) =>
            /\ registry' = registry /\ latch' = latch
            /\ storage' = storage /\ work' = work
            /\ \A d \in Calls \ {c} : ref'[d] = ref[d] /\ call'[d] = call[d]]_vars
  /\ [](\A d \in Calls :
          Resumed(d) =>
            LET l == latch[ref[d].joined]
            IN /\ Settled(l)
               /\ l.status = "entry" =>
                    /\ call[d].kind = "value" /\ call[d].res = l.result
               /\ l.status # "entry" => call[d].kind = "CMFE")
  /\ [](\A d \in Calls : TimedOut(d) => call[d].kind \in {"CMFE", "TimeoutError"})

\* waiter c was cancelled while the refresh of l was in flight; the
\* refresh stored its entry and the other waiter d returned that entry
C19_Witness ==
  \E l, c, d \in Calls :
    /\ l # c /\ l # d /\ c # d
    /\ ref[l].joined = l /\ ref[c].joined = l /\ ref[d].joined = l
    /\ call[c].pc = "done" /\ call[c].kind = "Cancelled"
    /\ latch[l].status = "entry" /\ latch[l].result.value = UserValue(l)
    /\ call[l].pc = "done" /\ call[l].kind = "value"
    /\ Resumed(d) /\ call[d].kind = "value" /\ call[d].res = latch[l].result

\* the try_release of call c completes storage().release and calls
\* mark_released in this step
ReleaseCompletes(c) == rel[c].pc = "await_release" /\ rel'[c].marked

\* C20 as stated: a step of try_release of key K taken while a refresh
\* of K is in flight returns false without releasing K or calling
\* mark_released.
C20_Original ==
  [][\A c \in Calls :
       (ReleaseStep(c) /\ IsBeingUpdated(registry, rel[c].key)) =>
         /\ rel'[c].pc = "done" /\ rel'[c].out = "false" /\ ~rel'[c].marked
         /\ storage' = storage]_vars

\* C20: a try_release of key K that starts while a refresh of K is in
\* flight returns false at once, without releasing K or calling
\* mark_released; mark_released is called only in the step in which
\* storage.release(K) has completed and K has left the storage; a
\* release that did not remove K returns false; and every run of
\* try_release ends by returning true or false, true only after
\* mark_released was called.
C20_ReleaseGate ==
  [][\A c \in Calls :
       ReleaseStep(c) =>
         /\ (rel[c].pc = "start" /\ IsBeingUpdated(registry, rel[c].key)) =>
              /\ rel'[c].pc = "done" /\ rel'[c].out = "false" /\ ~rel'[c].marked
              /\ storage' = storage
         /\ rel'[c].marked => (ReleaseCompletes(c) /\ storage'[rel[c].key] = NoEntry)
         /\ (rel[c].pc = "await_release" /\ storage'[rel[c].key] # NoEntry) =>
              (rel'[c].out = "false" /\ ~rel'[c].marked)
         /\ rel'[c].pc = "done" =>
              /\ rel'[c].out \in {"true", "false"}
              /\ rel'[c].out = "true" => rel'[c].marked
         /\ \A k \in Keys \ {rel[c].key} : storage'[k] = storage[k]
         /\ UNCHANGED <<call, ref, latch, registry, work>>]_vars

\* the try_release scheduled by the refresh of d found a refresh of its
\* key in flight and returned false, with the entry of the key still
\* stored and the refresh still running
C20_Witness ==
  \E c, d \in Calls :
    /\ c # d
    /\ rel[d].pc = "done" /\ rel[d].out = "false" /\ ~rel[d].marked
    /\ ref[d].pc = "done" /\ ref[d].evict = "notified"
    /\ ref[c].pc = "await_value" /\ registry[call[c].key] = c
    /\ storage[call[c].key] # NoEntry

\* C11 as stated: for every SerDe implementation and every entry E,
\* deserialize(serialize(E)) equals E, and the bytes of an EncodingSerDe
\* are the binary encoding of the bytes of the SerDe it wraps.
C11_RoundTrip ==
  /\ serde.pc = "deserialized" => serde.out = serde.entry
  /\ (serde.pc = "bytes" /\ serde.impl \in {"encoding_pickle", "encoding_json"}) =>
       serde.bytes = BinaryEncode(Serialize(Wrapped(serde.impl), serde.entry, serde.offset))
====
